---- MODULE Spec2Model ----
(***************************************************************************)
(* Model of the ADC sampler application: the register file (regs.c), the   *)
(* sampling thread and startup (main.c), the simulated and hardware ADC    *)
(* backends (targets/*/adc_backend.c) and the shell commands adcregs and   *)
(* adcset.                                                                 *)
(***************************************************************************)
EXTENDS Integers, Sequences, FiniteSets, TLC

\* ------------------------------------------------------------------------
\* Bounds of the model
\* ------------------------------------------------------------------------
NUM_CH == 2          \* CONFIG_APP_NUM_CH, reduced
NumReaders == 2      \* threads that call regs_read (shell, control logic)
MaxUptime == 200     \* the clock stops advancing here
TickMs == 100        \* granularity of the system clock
MaxUpdates == 3      \* updates the sampling thread / the test performs

\* ------------------------------------------------------------------------
\* Program constants
\* ------------------------------------------------------------------------
SAMPLE_PERIOD_MS == 100
ADC_REF_MV == 3300
ADC_RESOLUTION == 12
EMUL_INITIAL_MV == 1650
LIMB == 65536        \* uint32_t is kept as two 16-bit limbs <<hi, lo>>
EINVAL == 22
ENODEV == 19

Chans == 0 .. (NUM_CH - 1)
Readers == 1 .. NumReaders
MainT == <<"main", 0>>
SamplerT == <<"sampler", 0>>
ReaderT(r) == <<"reader", r>>
Threads == {MainT, SamplerT} \cup {ReaderT(r) : r \in Readers}
NoOwner == <<"unlocked", 0>>

VARIABLES
  target,             \* which adc_backend.c is linked: "sim", "hw" or "fault"
  now,                \* k_uptime_get(), ms
  regs,               \* static struct adc_regs regs
  regs_mutex,         \* owner of regs_mutex, or NoOwner
  pc,                 \* position of every thread
  samples, ret,       \* locals of sample_thread_entry
  idx,                \* loop index i of regs_update
  wake_at,            \* end of the sampler's k_msleep
  out,                \* struct adc_regs snapshot of every reader
  main_ret,           \* ret of main: what adc_backend_init returned
  emul,               \* adc-emul constant input per channel, mV
  injected_mv, injection_enabled,
  adc_dev,            \* "null" until adc_backend_init assigns it
  cmd,                \* last shell command: its argv, outcome and effect
  logged,             \* log records emitted by the last step
  snapshot,           \* struct adc_regs snapshot of the unit test
  hist,               \* history of the register file calls (ghost)
  committed           \* state left by the last completed regs_init/regs_update (ghost)

vars == <<target, now, regs, regs_mutex, pc, samples, ret, idx, wake_at, out,
          main_ret, emul, injected_mv, injection_enabled, adc_dev, cmd, logged,
          snapshot, hist, committed>>

appVars == <<target, pc, samples, ret, idx, wake_at, out, main_ret>>
simVars == <<emul, injected_mv, injection_enabled, adc_dev, cmd>>

\* ------------------------------------------------------------------------
\* uint32_t arithmetic on limbs
\* ------------------------------------------------------------------------
U32Zero == <<0, 0>>
U32Max == <<LIMB - 1, LIMB - 1>>
U32Of(n) == <<n \div LIMB, n % LIMB>>            \* for n < LIMB * LIMB
\* x + 1 on a uint32_t, wrapping at 2^32
U32Inc(x) ==
  IF x[2] = LIMB - 1 THEN <<(x[1] + 1) % LIMB, 0>> ELSE <<x[1], x[2] + 1>>
U32Leq(x, y) == x[1] < y[1] \/ (x[1] = y[1] /\ x[2] <= y[2])

\* A natural number of three limbs <<top, hi, lo>> (the count of updates)
NatInc(k) ==
  IF k[3] < LIMB - 1 THEN <<k[1], k[2], k[3] + 1>>
  ELSE IF k[2] < LIMB - 1 THEN <<k[1], k[2] + 1, 0>>
  ELSE <<k[1] + 1, 0, 0>>
NatMod32(k) == <<k[2], k[3]>>                    \* k mod 2^32

\* ------------------------------------------------------------------------
\* regs.c
\* ------------------------------------------------------------------------
ZeroMv == [c \in Chans |-> 0]

\* static struct adc_regs regs: zero-initialised static storage
StaticRegs == [mv |-> ZeroMv, seq |-> U32Zero, last_sample_uptime_ms |-> 0]

\* static storage / memset(&regs, 0); regs.seq = 0; regs.last_sample_uptime_ms = 0
regs_init_body_mv_only(r) == [r EXCEPT !.mv = ZeroMv]
regs_init_body(r) ==
  [mv |-> ZeroMv, seq |-> U32Zero, last_sample_uptime_ms |-> 0]

\* regs.mv[i] = mv[i]
regs_update_copy_first(r, i, mv) == [r EXCEPT !.mv[i] = mv[0]]
regs_update_copy(r, i, mv) == [r EXCEPT !.mv[i] = mv[i]]

\* regs.seq++
regs_update_seq_stuck(r) == r
regs_update_seq_per_channel(r) == [r EXCEPT !.seq = U32Inc(U32Inc(r.seq))]
regs_update_seq(r) == [r EXCEPT !.seq = U32Inc(r.seq)]

\* regs.last_sample_uptime_ms = k_uptime_get()
regs_update_ts_countdown(r, t) ==
  [r EXCEPT !.last_sample_uptime_ms = MaxUptime - t]
regs_update_ts(r, t) == [r EXCEPT !.last_sample_uptime_ms = t]

\* the loop for (i = 0; i < NUM_CH; i++) from index i on
RECURSIVE regs_update_loop(_, _, _)
regs_update_loop(r, i, mv) ==
  IF i < NUM_CH THEN regs_update_loop(regs_update_copy(r, i, mv), i + 1, mv)
  ELSE r

\* the whole critical section of regs_update
regs_update_body(r, mv, t) ==
  regs_update_ts(regs_update_seq(regs_update_loop(r, 0, mv)), t)

\* memcpy(out, &regs, sizeof(regs))
regs_read_body(r) ==
  [mv |-> [c \in Chans |-> r.mv[c]], seq |-> r.seq,
   last_sample_uptime_ms |-> r.last_sample_uptime_ms]

\* The calls the unit test has made: the last writer, whether regs_read came
\* after it, the state before the last update and its argument, the number
\* K of updates since regs_init and the updates n of this run; for the
\* sampling thread, whether a cycle has failed since the last commit and the
\* channels whose adc_read failed in the sample being taken; for every reader
\* inside the critical section of regs_read, the highest sequence number and
\* timestamp that the reads which had returned when it got the mutex had
\* delivered (ghost)
NoFloor == [seq |-> U32Zero, ts |-> 0]
NoHist == [last_write |-> "none", fresh |-> FALSE, pre |-> StaticRegs,
           V |-> ZeroMv, K |-> <<0, 0, 0>>, n |-> 0, failed |-> FALSE,
           zeroed |-> {}, floor |-> [r \in Readers |-> NoFloor]]

\* k_mutex_lock(&regs_mutex, K_FOREVER) returns once the mutex is free
k_mutex_never_blocks(m) == TRUE
k_mutex_can_lock(m) == m = NoOwner

\* k_mutex_unlock(&regs_mutex): the owner after the call
k_mutex_unlock_skipped(m) == m
k_mutex_unlock(m) == NoOwner

\* ------------------------------------------------------------------------
\* targets/sim/adc_backend.c and the adc-emul device behind it
\* ------------------------------------------------------------------------
AdcFullScale == 2 ^ ADC_RESOLUTION - 1           \* (1 << ADC_RESOLUTION) - 1

Min(a, b) == IF a < b THEN a ELSE b

\* adc_read() on an emulated channel whose constant input is mv millivolts:
\* the adc-emul driver delivers the code mv * full scale / reference, an
\* integer division, capped at full scale (reference: 3300 mV)
adc_emul_raw(mv) == Min(AdcFullScale, (mv * AdcFullScale) \div ADC_REF_MV)

\* out_mv[i] = (raw * ADC_REF_MV) / ((1 << ADC_RESOLUTION) - 1)
raw_to_mv(raw) == (raw * ADC_REF_MV) \div AdcFullScale

\* one round of the loop of adc_backend_sample_all: channel i read from the
\* device, or 0 when adc_read failed
sample_channel_keeps_value(raw, read_failed) == raw_to_mv(raw)
sample_channel(raw, read_failed) == IF read_failed THEN 0 ELSE raw_to_mv(raw)

\* the clamp of adc_backend_inject_mv
inject_out_of_range(mv) == mv < 0 \/ mv > ADC_REF_MV
inject_clamp_upper_only(mv) == IF mv > ADC_REF_MV THEN ADC_REF_MV ELSE mv
inject_clamp(mv) ==
  IF inject_out_of_range(mv) THEN (IF mv < 0 THEN 0 ELSE ADC_REF_MV) ELSE mv

\* if (ch >= NUM_CH) return -EINVAL;  ch is an unsigned int
inject_bad_channel_gt(ch) == ~ U32Leq(ch, U32Of(NUM_CH))
inject_bad_channel(ch) == ~ U32Leq(ch, U32Of(NUM_CH - 1))

\* The call the last step made, with its arguments and return value (ghost)
\* For adc_backend_sample_all, ch and mv are those of the injection made by
\* the step before it (after_inject), and fails the channels whose read failed.
NoCmd == [name |-> "none", argv |-> <<>>, ch |-> U32Zero, mv |-> 0, ret |-> 0,
          after_inject |-> FALSE, fails |-> {}]

\* adc_backend_init(): ready is device_is_ready(adc_dev), fail_at the channel
\* whose adc_channel_setup fails (NUM_CH: none) and set_fails the channels
\* whose adc_emul_const_value_set fails. The result has the shape of
\* adc_backend_inject_mv's.
sim_backend_init(ready, fail_at, set_fails) ==
  IF ~ ready THEN
    [ret |-> -ENODEV, emul |-> emul, injected_mv |-> injected_mv,
     injection_enabled |-> injection_enabled, log |-> {"ERR ADC device not ready"}]
  ELSE
    [ret |-> IF fail_at < NUM_CH THEN -EINVAL ELSE 0,
     emul |-> [c \in Chans |->
                 IF c < fail_at /\ c \notin set_fails THEN EMUL_INITIAL_MV
                 ELSE emul[c]],
     injected_mv |-> [c \in Chans |->
                 IF c < fail_at THEN EMUL_INITIAL_MV ELSE injected_mv[c]],
     injection_enabled |-> [c \in Chans |->
                 IF c < fail_at THEN FALSE ELSE injection_enabled[c]],
     log |-> (IF fail_at < NUM_CH THEN {"ERR failed to setup channel"}
              ELSE {"INF ADC backend (SIM) initialized"})
             \cup (IF \E c \in set_fails : c < fail_at
                   THEN {"WRN failed to set initial emulator value"} ELSE {})]

\* adc_backend_inject_mv(ch, mv); set_ret is what adc_emul_const_value_set
\* returns. The result: the return value, the new device and backend state
\* and the log records.
adc_backend_inject_mv(ch, mv, set_ret) ==
  IF inject_bad_channel(ch) THEN
    [ret |-> -EINVAL, emul |-> emul, injected_mv |-> injected_mv,
     injection_enabled |-> injection_enabled, log |-> {}]
  ELSE
    LET c == ch[2]
        warn == IF inject_out_of_range(mv) THEN {"WRN clamping injection value"}
                ELSE {}
        v == inject_clamp(mv)
    IN IF set_ret < 0 THEN
         [ret |-> set_ret, emul |-> emul, injected_mv |-> injected_mv,
          injection_enabled |-> injection_enabled,
          log |-> warn \cup {"ERR failed to inject value"}]
       ELSE
         [ret |-> 0, emul |-> [emul EXCEPT ![c] = v],
          injected_mv |-> [injected_mv EXCEPT ![c] = v],
          injection_enabled |-> [injection_enabled EXCEPT ![c] = TRUE],
          log |-> warn \cup {"INF injected"}]

\* ------------------------------------------------------------------------
\* targets/sim/cmd_inject_adc.c
\* ------------------------------------------------------------------------
Digits == <<"0", "1", "2", "3", "4", "5", "6", "7", "8", "9">>
IsDigit(c) == \E d \in 1 .. 10 : Digits[d] = c
DigitVal(c) == (CHOOSE d \in 1 .. 10 : Digits[d] = c) - 1

RECURSIVE SkipSpace(_)
SkipSpace(s) == IF s # <<>> /\ Head(s) = " " THEN SkipSpace(Tail(s)) ELSE s

\* the value of the longest prefix of digits, 0 when there is none
RECURSIVE DigitsValue(_, _)
DigitsValue(s, acc) ==
  IF s # <<>> /\ IsDigit(Head(s))
  THEN DigitsValue(Tail(s), 10 * acc + DigitVal(Head(s)))
  ELSE acc

\* strtol/strtoul(s, NULL, 10): white space, an optional sign, digits; what
\* follows is ignored and no digits at all give 0
StrSign(s) ==
  LET t == SkipSpace(s) IN IF t # <<>> /\ Head(t) = "-" THEN -1 ELSE 1
StrMagnitude(s) ==
  LET t == SkipSpace(s)
      u == IF t # <<>> /\ Head(t) \in {"-", "+"} THEN Tail(t) ELSE t
  IN DigitsValue(u, 0)

\* -x on a uint32_t
U32Neg(x) ==
  IF x[2] # 0 THEN <<LIMB - 1 - x[1], LIMB - x[2]>>
  ELSE <<(LIMB - x[1]) % LIMB, 0>>

\* ch = (unsigned int)strtoul(argv[1], NULL, 10)
strtoul_u32(s) ==
  IF StrSign(s) < 0 THEN U32Neg(U32Of(StrMagnitude(s))) ELSE U32Of(StrMagnitude(s))

\* mv = (int32_t)strtol(argv[2], NULL, 10)
strtol_i32(s) == StrSign(s) * StrMagnitude(s)

\* if (ch >= CONFIG_APP_NUM_CH)
cmd_bad_channel(ch) == ~ U32Leq(ch, U32Of(NUM_CH - 1))

\* cmd_adcset(sh, argc, argv): the result has adc_backend_inject_mv's shape
cmd_adcset(argv, set_ret) ==
  IF Len(argv) # 3 THEN
    [ret |-> -EINVAL, emul |-> emul, injected_mv |-> injected_mv,
     injection_enabled |-> injection_enabled, log |-> {"shell_error usage"}]
  ELSE
    LET ch == strtoul_u32(argv[2])
        mv == strtol_i32(argv[3])
    IN IF cmd_bad_channel(ch) THEN
         [ret |-> -EINVAL, emul |-> emul, injected_mv |-> injected_mv,
          injection_enabled |-> injection_enabled,
          log |-> {"shell_error invalid channel"}]
       ELSE
         LET r == adc_backend_inject_mv(ch, mv, set_ret)
         IN IF r.ret < 0
            THEN [r EXCEPT !.log = r.log \cup {"shell_error injection failed"}]
            ELSE [r EXCEPT !.log = r.log \cup {"shell_print set"}]

\* ------------------------------------------------------------------------
\* The system clock
\* ------------------------------------------------------------------------
Tick ==
  /\ now + TickMs <= MaxUptime
  /\ now' = now + TickMs
  /\ logged' = {}
  /\ cmd' = NoCmd
  /\ UNCHANGED <<regs, regs_mutex, appVars, emul, injected_mv, injection_enabled,
                 adc_dev, snapshot, hist, committed>>

\* ------------------------------------------------------------------------
\* tests/unit/src/test_regs.c: one thread calls regs_init, regs_update and
\* regs_read one after the other, from any state the register file can be in
\* ------------------------------------------------------------------------
UnitMv == {-1, 4000}
PriorK == {<<0, 0, 0>>, <<0, 0, LIMB - 1>>, <<0, LIMB - 1, LIMB - 2>>}


IdleState(main_pc) ==
  /\ regs_mutex = NoOwner
  /\ pc = [t \in Threads |-> IF t = MainT THEN main_pc ELSE "idle"]
  /\ samples = ZeroMv /\ ret = 0 /\ idx = 0 /\ wake_at = 0
  /\ out = [r \in Readers |-> StaticRegs]
  /\ main_ret = 0
  /\ emul = ZeroMv /\ injected_mv = ZeroMv
  /\ injection_enabled = [c \in Chans |-> FALSE]
  /\ adc_dev = "null"
  /\ cmd = NoCmd
  /\ logged = {}

InitUnit ==
  /\ IdleState("idle")
  /\ target = "sim"
  /\ now \in {0, TickMs}
  /\ \E k \in PriorK, mv \in [Chans -> UnitMv], ts \in {0, TickMs} :
       /\ ts <= now
       /\ regs = IF k = <<0, 0, 0>> THEN StaticRegs
                 ELSE [mv |-> mv, seq |-> NatMod32(k), last_sample_uptime_ms |-> ts]
       /\ hist = [last_write |-> "none", fresh |-> FALSE, pre |-> regs,
                  V |-> regs.mv, K |-> k, n |-> 0, failed |-> FALSE,
                  zeroed |-> {}, floor |-> [r \in Readers |-> NoFloor]]
  /\ snapshot = StaticRegs
  /\ committed = regs

\* regs_before(): regs_init()
T_regs_init ==
  /\ k_mutex_can_lock(regs_mutex)
  /\ regs' = regs_init_body(regs)
  /\ hist' = [hist EXCEPT !.last_write = "init", !.fresh = FALSE, !.pre = regs,
                          !.V = ZeroMv, !.K = <<0, 0, 0>>]
  /\ logged' = {}
  /\ UNCHANGED <<now, regs_mutex, appVars, simVars, snapshot, committed>>

\* regs_update(test_values)
T_regs_update(mv) ==
  /\ hist.n < MaxUpdates
  /\ k_mutex_can_lock(regs_mutex)
  /\ regs' = regs_update_body(regs, mv, now)
  /\ hist' = [hist EXCEPT !.last_write = "update", !.fresh = FALSE, !.pre = regs,
                          !.V = mv, !.K = NatInc(hist.K), !.n = hist.n + 1]
  /\ logged' = {}
  /\ UNCHANGED <<now, regs_mutex, appVars, simVars, snapshot, committed>>

\* regs_read(&snapshot)
T_regs_read ==
  /\ k_mutex_can_lock(regs_mutex)
  /\ snapshot' = regs_read_body(regs)
  /\ hist' = [hist EXCEPT !.fresh = TRUE]
  /\ logged' = {}
  /\ UNCHANGED <<now, regs, regs_mutex, appVars, simVars, committed>>

NextUnit ==
  \/ T_regs_init
  \/ \E mv \in [Chans -> UnitMv] : T_regs_update(mv)
  \/ T_regs_read
  \/ Tick

SpecUnit == InitUnit /\ [][NextUnit]_vars

\* ------------------------------------------------------------------------
\* The simulated backend on its own: adc_backend_init once, then injections
\* (through adcset or by a direct call) and whole adc_backend_sample_all calls
\* ------------------------------------------------------------------------
Str(n) ==                       \* the argument strings used, as characters
  CASE n = "0" -> <<"0">>
    [] n = "1" -> <<"1">>
    [] n = "9" -> <<"9">>
    [] n = "-1" -> <<"-", "1">>
    [] n = "x" -> <<"x">>
    [] n = "1x" -> <<"1", "x">>
    [] n = "1000" -> <<"1", "0", "0", "0">>
    [] n = "5000" -> <<"5", "0", "0", "0">>
    [] n = "-5" -> <<"-", "5">>

ChanArgs == {Str(n) : n \in {"0", "1", "9", "-1", "x", "1x"}}
MvArgs == {Str(n) : n \in {"1000", "5000", "-5", "x"}}
SimArgvs ==
  {<<"adcset", c, m>> : c \in ChanArgs, m \in MvArgs}
    \cup {<<"adcset">>, <<"adcset", Str("0")>>,
          <<"adcset", Str("0"), Str("1000"), Str("1")>>}
InjectChans == {U32Of(0), U32Of(NUM_CH), U32Max}
InjectMv == {-1, 0, 3300, 3301}
ReadFailures == {{}} \cup {{c} : c \in Chans}   \* at most one device call fails
SetRets == {0, -EINVAL}         \* what adc_emul_const_value_set returns

InitSim ==
  /\ IdleState("backend_init")
  /\ target = "sim"
  /\ now = 0
  /\ regs = StaticRegs
  /\ hist = NoHist
  /\ snapshot = StaticRegs
  /\ committed = regs

\* adc_backend_init(), called once at startup
Sim_init ==
  /\ pc[MainT] = "backend_init"
  /\ \E ready \in BOOLEAN, fail_at \in 0 .. NUM_CH, set_fails \in ReadFailures :
       \E r \in {sim_backend_init(ready, fail_at, set_fails)} :
       /\ adc_dev' = IF ready THEN "ready" ELSE "not ready"
       /\ emul' = r.emul
       /\ injected_mv' = r.injected_mv
       /\ injection_enabled' = r.injection_enabled
       /\ main_ret' = r.ret
       /\ logged' = r.log
       /\ cmd' = [NoCmd EXCEPT !.name = "init", !.ret = r.ret]
  /\ pc' = [pc EXCEPT ![MainT] = "returned"]
  /\ UNCHANGED <<target, now, regs, regs_mutex, samples, ret, idx, wake_at, out,
                 snapshot, hist, committed>>

BackendUp == pc[MainT] = "returned" /\ main_ret = 0

\* the call c was an injection that succeeded
Injected(c) == c.name \in {"adcset", "inject"} /\ c.ret = 0

\* adcset <channel> <millivolts> typed at the shell (simulator builds only)
Sim_cmd_adcset(argv, set_ret) ==
  /\ target = "sim"
  /\ adc_dev # "null"
  /\ \E r \in {cmd_adcset(argv, set_ret)} :
     /\ emul' = r.emul
     /\ injected_mv' = r.injected_mv
     /\ injection_enabled' = r.injection_enabled
     /\ logged' = r.log
     /\ cmd' = IF Len(argv) = 3
               THEN [NoCmd EXCEPT !.name = "adcset", !.argv = argv, !.ret = r.ret,
                                  !.ch = strtoul_u32(argv[2]),
                                  !.mv = strtol_i32(argv[3])]
               ELSE [NoCmd EXCEPT !.name = "adcset", !.argv = argv, !.ret = r.ret]
  /\ UNCHANGED <<target, now, regs, regs_mutex, pc, samples, ret, idx, wake_at,
                 out, main_ret, adc_dev, snapshot, hist, committed>>

\* adc_backend_inject_mv(ch, mv) called by a test or diagnostic caller
Sim_inject(ch, mv, set_ret) ==
  /\ adc_dev # "null"
  /\ \E r \in {adc_backend_inject_mv(ch, mv, set_ret)} :
     /\ emul' = r.emul
     /\ injected_mv' = r.injected_mv
     /\ injection_enabled' = r.injection_enabled
     /\ logged' = r.log
     /\ cmd' = [NoCmd EXCEPT !.name = "inject", !.ch = ch, !.mv = mv,
                             !.ret = r.ret]
  /\ UNCHANGED <<target, now, regs, regs_mutex, pc, samples, ret, idx, wake_at,
                 out, main_ret, adc_dev, snapshot, hist, committed>>

\* adc_backend_sample_all(samples); fails: the channels whose adc_read fails
Sim_sample_all(fails) ==
  /\ BackendUp
  /\ samples' = [c \in Chans |-> sample_channel(adc_emul_raw(emul[c]), c \in fails)]
  /\ ret' = 0
  /\ logged' = IF fails # {} THEN {"ERR ADC read failed"} ELSE {}
  /\ cmd' = [NoCmd EXCEPT !.name = "sample_all", !.fails = fails,
                          !.after_inject = Injected(cmd),
                          !.ch = cmd.ch, !.mv = cmd.mv]
  /\ UNCHANGED <<target, now, regs, regs_mutex, pc, idx, wake_at, out, main_ret,
                 emul, injected_mv, injection_enabled, adc_dev, snapshot, hist,
                 committed>>

NextSim ==
  \/ Sim_init
  \/ \E argv \in SimArgvs, set_ret \in SetRets : Sim_cmd_adcset(argv, set_ret)
  \/ \E ch \in InjectChans, mv \in InjectMv, set_ret \in SetRets :
       Sim_inject(ch, mv, set_ret)
  \/ \E fails \in ReadFailures : Sim_sample_all(fails)

SpecSim == InitSim /\ [][NextSim]_vars

\* ------------------------------------------------------------------------
\* targets/hw/adc_backend.c
\* ------------------------------------------------------------------------
\* adc_backend_init(): adc1_ready and adc3_ready are device_is_ready() of the
\* two converters, fail_at the channel whose adc_channel_setup fails
hw_backend_init(adc1_ready, adc3_ready, fail_at) ==
  IF ~ adc1_ready THEN [ret |-> -ENODEV, log |-> {"ERR ADC1 device not ready"}]
  ELSE IF ~ adc3_ready THEN [ret |-> -ENODEV, log |-> {"ERR ADC3 device not ready"}]
  ELSE IF fail_at < NUM_CH THEN [ret |-> -EINVAL, log |-> {"ERR failed to setup channel"}]
  ELSE [ret |-> 0, log |-> {"INF ADC backend (HW) initialized"}]

HwRaw == {0, AdcFullScale}      \* codes the converters deliver

\* ------------------------------------------------------------------------
\* adc_backend.h: a backend that uses the error return of the interface
\* ------------------------------------------------------------------------
FaultRets == {0, -EINVAL}       \* 0 on success, negative errno on failure
FaultMv == {1000, 2000}

\* ------------------------------------------------------------------------
\* main.c
\* ------------------------------------------------------------------------
\* if (ret == 0) regs_update(samples); else LOG_ERR
sample_ok_always(r) == TRUE
sample_ok(r) == r = 0

\* if (ret != 0) { LOG_ERR; return ret; }
init_failed_never(r) == FALSE
init_failed(r) == r # 0

\* main() is entered with every other thread of the application not yet
\* created: the sampling thread is created by k_thread_create in main, not
\* defined statically
Init_sampler_autostart ==
  /\ regs_mutex = NoOwner
  /\ pc = [t \in Threads |-> IF t = MainT THEN "regs_init"
                              ELSE IF t = SamplerT THEN "sample" ELSE "idle"]
  /\ samples = ZeroMv /\ ret = 0 /\ idx = 0 /\ wake_at = 0
  /\ out = [r \in Readers |-> StaticRegs]
  /\ main_ret = 0
  /\ emul = ZeroMv /\ injected_mv = ZeroMv
  /\ injection_enabled = [c \in Chans |-> FALSE]
  /\ adc_dev = "null"
  /\ cmd = NoCmd
  /\ logged = {}
  /\ target \in {"sim", "hw", "fault"}
  /\ now = 0
  /\ regs = StaticRegs
  /\ hist = NoHist
  /\ snapshot = StaticRegs
  /\ committed = regs
Init ==
  /\ IdleState("regs_init")
  /\ target \in {"sim", "hw", "fault"}
  /\ now = 0
  /\ regs = StaticRegs
  /\ hist = NoHist
  /\ snapshot = StaticRegs
  /\ committed = regs

\* main: regs_init(), k_mutex_lock
M_init_lock ==
  /\ pc[MainT] = "regs_init"
  /\ k_mutex_can_lock(regs_mutex)
  /\ regs_mutex' = MainT
  /\ pc' = [pc EXCEPT ![MainT] = "ri_body"]
  /\ logged' = {"INF ADC Sampler application started"}
  /\ cmd' = NoCmd
  /\ UNCHANGED <<target, now, regs, samples, ret, idx, wake_at, out, main_ret,
                 emul, injected_mv, injection_enabled, adc_dev, snapshot, hist,
                 committed>>

\* regs_init(): memset and the two assignments
M_init_body ==
  /\ pc[MainT] = "ri_body"
  /\ regs' = regs_init_body(regs)
  /\ pc' = [pc EXCEPT ![MainT] = "ri_unlock"]
  /\ logged' = {}
  /\ cmd' = NoCmd
  /\ UNCHANGED <<target, now, regs_mutex, samples, ret, idx, wake_at, out,
                 main_ret, emul, injected_mv, injection_enabled, adc_dev,
                 snapshot, hist, committed>>

\* regs_init(): k_mutex_unlock and return
M_init_unlock ==
  /\ pc[MainT] = "ri_unlock"
  /\ regs_mutex' = k_mutex_unlock(regs_mutex)
  /\ pc' = [pc EXCEPT ![MainT] = "backend_init"]
  /\ committed' = regs
  /\ logged' = {}
  /\ cmd' = NoCmd
  /\ UNCHANGED <<target, now, regs, samples, ret, idx, wake_at, out, main_ret,
                 emul, injected_mv, injection_enabled, adc_dev, snapshot, hist>>

\* the outcomes of adc_backend_init() of the linked backend
BackendInitResults ==
  CASE target = "sim" ->
         {sim_backend_init(ready, fail_at, {}) :
            ready \in BOOLEAN, fail_at \in 0 .. NUM_CH}
    [] target = "hw" ->
         {[ret |-> h.ret, emul |-> emul, injected_mv |-> injected_mv,
           injection_enabled |-> injection_enabled, log |-> h.log] :
            h \in {hw_backend_init(r1, r3, fail_at) :
                     r1 \in BOOLEAN, r3 \in BOOLEAN, fail_at \in 0 .. NUM_CH}}
    [] OTHER ->
         {[ret |-> e, emul |-> emul, injected_mv |-> injected_mv,
           injection_enabled |-> injection_enabled, log |-> {}] :
            e \in {0, -ENODEV}}

\* main: ret = adc_backend_init(); on failure log and return, otherwise
\* k_thread_create(sample_thread_entry) and return 0
M_backend_init ==
  /\ pc[MainT] = "backend_init"
  /\ \E r \in BackendInitResults :
       /\ emul' = r.emul
       /\ injected_mv' = r.injected_mv
       /\ injection_enabled' = r.injection_enabled
       /\ adc_dev' = IF r.ret = -ENODEV THEN "not ready" ELSE "ready"
       /\ main_ret' = r.ret
       /\ pc' = IF init_failed(r.ret)
                THEN [pc EXCEPT ![MainT] = "returned"]
                ELSE [pc EXCEPT ![MainT] = "returned", ![SamplerT] = "sample"]
       /\ logged' = IF init_failed(r.ret)
                    THEN r.log \cup {"ERR ADC backend init failed"}
                    ELSE r.log \cup {"INF Sampling thread started"}
       /\ cmd' = [NoCmd EXCEPT !.name = "init", !.ret = r.ret]
  /\ UNCHANGED <<target, now, regs, regs_mutex, samples, ret, idx, wake_at, out,
                 snapshot, hist, committed>>

\* sample_thread_entry: adc_backend_sample_all(samples), one channel of the
\* loop per step; a backend known only by adc_backend.h returns in one step
S_sample ==
  /\ pc[SamplerT] = "sample"
  /\ \/ /\ target = "sim"
        /\ \E failed \in BOOLEAN :
             /\ samples' = [samples EXCEPT ![idx] =
                              sample_channel(adc_emul_raw(emul[idx]), failed)]
             /\ logged' = IF failed THEN {"ERR ADC read failed"} ELSE {}
             /\ hist' = [hist EXCEPT !.zeroed =
                           (IF idx = 0 THEN {} ELSE @)
                             \cup (IF failed THEN {idx} ELSE {})]
        /\ ret' = 0
        /\ idx' = (idx + 1) % NUM_CH
        /\ pc' = IF idx + 1 = NUM_CH THEN [pc EXCEPT ![SamplerT] = "check"] ELSE pc
     \/ /\ target = "hw"
        /\ \E failed \in BOOLEAN, raw \in HwRaw :
             /\ samples' = [samples EXCEPT ![idx] = sample_channel(raw, failed)]
             /\ logged' = IF failed THEN {"ERR ADC read failed"} ELSE {}
             /\ hist' = [hist EXCEPT !.zeroed =
                           (IF idx = 0 THEN {} ELSE @)
                             \cup (IF failed THEN {idx} ELSE {})]
        /\ ret' = 0
        /\ idx' = (idx + 1) % NUM_CH
        /\ pc' = IF idx + 1 = NUM_CH THEN [pc EXCEPT ![SamplerT] = "check"] ELSE pc
     \/ /\ target = "fault"
        /\ \E e \in FaultRets, v \in FaultMv :
             /\ samples' = [c \in Chans |-> v + c]
             /\ ret' = e
        /\ logged' = {}
        /\ idx' = 0
        /\ pc' = [pc EXCEPT ![SamplerT] = "check"]
        /\ UNCHANGED hist
  /\ cmd' = NoCmd
  /\ UNCHANGED <<target, now, regs, regs_mutex, wake_at, out, main_ret, emul,
                 injected_mv, injection_enabled, adc_dev, snapshot, committed>>

\* sample_thread_entry: if (ret == 0) regs_update(samples) else LOG_ERR and
\* k_msleep(SAMPLE_PERIOD_MS)
S_check_fatal ==
  /\ pc[SamplerT] = "check"
  /\ IF sample_ok(ret)
     THEN /\ pc' = [pc EXCEPT ![SamplerT] = "ru_lock"]
          /\ logged' = {}
          /\ UNCHANGED <<wake_at, hist>>
     ELSE /\ pc' = [pc EXCEPT ![SamplerT] = "returned"]
          /\ logged' = {"ERR ADC sample failed"}
          /\ hist' = [hist EXCEPT !.failed = TRUE]
          /\ UNCHANGED wake_at
  /\ cmd' = NoCmd
  /\ UNCHANGED <<target, now, regs, regs_mutex, samples, ret, idx, out, main_ret,
                 emul, injected_mv, injection_enabled, adc_dev, snapshot,
                 committed>>
S_check ==
  /\ pc[SamplerT] = "check"
  /\ IF sample_ok(ret)
     THEN /\ pc' = [pc EXCEPT ![SamplerT] = "ru_lock"]
          /\ logged' = {}
          /\ UNCHANGED <<wake_at, hist>>
     ELSE /\ pc' = [pc EXCEPT ![SamplerT] = "sleep"]
          /\ logged' = {"ERR ADC sample failed"}
          /\ wake_at' = now + SAMPLE_PERIOD_MS
          /\ hist' = [hist EXCEPT !.failed = TRUE]
  /\ cmd' = NoCmd
  /\ UNCHANGED <<target, now, regs, regs_mutex, samples, ret, idx, out, main_ret,
                 emul, injected_mv, injection_enabled, adc_dev, snapshot,
                 committed>>

\* regs_update: k_mutex_lock
S_update_lock ==
  /\ pc[SamplerT] = "ru_lock"
  /\ k_mutex_can_lock(regs_mutex)
  /\ regs_mutex' = SamplerT
  /\ pc' = [pc EXCEPT ![SamplerT] = "ru_copy"]
  /\ idx' = 0
  /\ logged' = {}
  /\ cmd' = NoCmd
  /\ UNCHANGED <<target, now, regs, samples, ret, wake_at, out, main_ret, emul,
                 injected_mv, injection_enabled, adc_dev, snapshot, hist,
                 committed>>

\* regs_update: one round of the copy loop
S_update_copy ==
  /\ pc[SamplerT] = "ru_copy"
  /\ regs' = regs_update_copy(regs, idx, samples)
  /\ idx' = (idx + 1) % NUM_CH
  /\ pc' = IF idx + 1 = NUM_CH THEN [pc EXCEPT ![SamplerT] = "ru_seq"] ELSE pc
  /\ logged' = {}
  /\ cmd' = NoCmd
  /\ UNCHANGED <<target, now, regs_mutex, samples, ret, wake_at, out, main_ret,
                 emul, injected_mv, injection_enabled, adc_dev, snapshot, hist,
                 committed>>

\* regs_update: regs.seq++
S_update_seq ==
  /\ pc[SamplerT] = "ru_seq"
  /\ regs' = regs_update_seq(regs)
  /\ pc' = [pc EXCEPT ![SamplerT] = "ru_ts"]
  /\ logged' = {}
  /\ cmd' = NoCmd
  /\ UNCHANGED <<target, now, regs_mutex, samples, ret, idx, wake_at, out,
                 main_ret, emul, injected_mv, injection_enabled, adc_dev,
                 snapshot, hist, committed>>

\* regs_update: regs.last_sample_uptime_ms = k_uptime_get()
S_update_ts ==
  /\ pc[SamplerT] = "ru_ts"
  /\ regs' = regs_update_ts(regs, now)
  /\ pc' = [pc EXCEPT ![SamplerT] = "ru_unlock"]
  /\ logged' = {}
  /\ cmd' = NoCmd
  /\ UNCHANGED <<target, now, regs_mutex, samples, ret, idx, wake_at, out,
                 main_ret, emul, injected_mv, injection_enabled, adc_dev,
                 snapshot, hist, committed>>

\* regs_update: k_mutex_unlock and return; then k_msleep(SAMPLE_PERIOD_MS)
S_update_unlock ==
  /\ pc[SamplerT] = "ru_unlock"
  /\ regs_mutex' = k_mutex_unlock(regs_mutex)
  /\ pc' = [pc EXCEPT ![SamplerT] = "sleep"]
  /\ wake_at' = now + SAMPLE_PERIOD_MS
  /\ committed' = regs
  /\ hist' = [hist EXCEPT !.failed = FALSE, !.zeroed = {}]
  /\ logged' = {}
  /\ cmd' = NoCmd
  /\ UNCHANGED <<target, now, regs, samples, ret, idx, out, main_ret, emul,
                 injected_mv, injection_enabled, adc_dev, snapshot>>

\* k_msleep(SAMPLE_PERIOD_MS) is over: the next round of while (1)
S_wake ==
  /\ pc[SamplerT] = "sleep"
  /\ now >= wake_at
  /\ pc' = [pc EXCEPT ![SamplerT] = "sample"]
  /\ idx' = 0
  /\ logged' = {}
  /\ cmd' = NoCmd
  /\ UNCHANGED <<target, now, regs, regs_mutex, samples, ret, wake_at, out,
                 main_ret, emul, injected_mv, injection_enabled, adc_dev,
                 snapshot, hist, committed>>

\* regs_init() has returned: regs_read may be called (regs.h)
RegsReady == pc[MainT] \in {"backend_init", "returned"}

\* the snapshots of the calls of regs_read that have returned, those of
\* reader r itself and of the readers that are not inside regs_read: the
\* highest sequence number and the highest timestamp among them (ghost)
ReturnedSoFar(r) ==
  LET done == {out[q] : q \in {x \in Readers : x = r \/ pc[ReaderT(x)] = "idle"}}
  IN [seq |-> CHOOSE m \in {d.seq : d \in done} :
                \A d \in done : U32Leq(d.seq, m),
      ts |-> CHOOSE m \in {d.last_sample_uptime_ms : d \in done} :
               \A d \in done : d.last_sample_uptime_ms <= m]

\* cmd_adcregs: the call regs_read(&snapshot)
R_call(r) ==
  /\ pc[ReaderT(r)] = "idle"
  /\ RegsReady
  /\ pc' = [pc EXCEPT ![ReaderT(r)] = "rr_lock"]
  /\ logged' = {}
  /\ cmd' = NoCmd
  /\ UNCHANGED <<target, now, regs, regs_mutex, samples, ret, idx, wake_at, out,
                 main_ret, emul, injected_mv, injection_enabled, adc_dev,
                 snapshot, hist, committed>>

\* regs_read: k_mutex_lock(&regs_mutex, K_FOREVER)
R_lock(r) ==
  /\ pc[ReaderT(r)] = "rr_lock"
  /\ k_mutex_can_lock(regs_mutex)
  /\ regs_mutex' = ReaderT(r)
  /\ pc' = [pc EXCEPT ![ReaderT(r)] = "rr_copy"]
  /\ hist' = [hist EXCEPT !.floor[r] = ReturnedSoFar(r)]
  /\ logged' = {}
  /\ cmd' = NoCmd
  /\ UNCHANGED <<target, now, regs, samples, ret, idx, wake_at, out, main_ret,
                 emul, injected_mv, injection_enabled, adc_dev, snapshot,
                 committed>>

\* regs_read: memcpy(out, &regs, sizeof(*out))
R_copy_reversed(r) ==
  /\ pc[ReaderT(r)] = "rr_copy"
  /\ regs' = out[r]
  /\ pc' = [pc EXCEPT ![ReaderT(r)] = "rr_unlock"]
  /\ logged' = {}
  /\ cmd' = NoCmd
  /\ UNCHANGED <<target, now, out, regs_mutex, samples, ret, idx, wake_at,
                 main_ret, emul, injected_mv, injection_enabled, adc_dev,
                 snapshot, hist, committed>>
R_copy_cached(r) ==
  /\ pc[ReaderT(r)] = "rr_copy"
  /\ out' = IF out[r].seq = U32Zero
            THEN [out EXCEPT ![r] = regs_read_body(regs)] ELSE out
  /\ pc' = [pc EXCEPT ![ReaderT(r)] = "rr_unlock"]
  /\ logged' = {}
  /\ cmd' = NoCmd
  /\ UNCHANGED <<target, now, regs, regs_mutex, samples, ret, idx, wake_at,
                 main_ret, emul, injected_mv, injection_enabled, adc_dev,
                 snapshot, hist, committed>>
R_copy(r) ==
  /\ pc[ReaderT(r)] = "rr_copy"
  /\ out' = [out EXCEPT ![r] = regs_read_body(regs)]
  /\ pc' = [pc EXCEPT ![ReaderT(r)] = "rr_unlock"]
  /\ logged' = {}
  /\ cmd' = NoCmd
  /\ UNCHANGED <<target, now, regs, regs_mutex, samples, ret, idx, wake_at,
                 main_ret, emul, injected_mv, injection_enabled, adc_dev,
                 snapshot, hist, committed>>

\* regs_read: k_mutex_unlock and return; cmd_adcregs prints the snapshot
R_unlock(r) ==
  /\ pc[ReaderT(r)] = "rr_unlock"
  /\ regs_mutex' = k_mutex_unlock(regs_mutex)
  /\ pc' = [pc EXCEPT ![ReaderT(r)] = "idle"]
  /\ hist' = [hist EXCEPT !.floor[r] = NoFloor]
  /\ logged' = {}
  /\ cmd' = NoCmd
  /\ UNCHANGED <<target, now, regs, samples, ret, idx, wake_at, out, main_ret,
                 emul, injected_mv, injection_enabled, adc_dev, snapshot,
                 committed>>

AppArgvs == {<<"adcset", Str("1"), Str("1000")>>,
             <<"adcset", Str("9"), Str("1000")>>}

Next ==
  \/ Tick
  \/ M_init_lock \/ M_init_body \/ M_init_unlock \/ M_backend_init
  \/ S_sample \/ S_check
  \/ S_update_lock \/ S_update_copy \/ S_update_seq \/ S_update_ts
  \/ S_update_unlock \/ S_wake
  \/ \E r \in Readers : R_call(r) \/ R_lock(r) \/ R_copy(r) \/ R_unlock(r)
  \/ \E argv \in AppArgvs : Sim_cmd_adcset(argv, 0)

Spec == Init /\ [][Next]_vars

\* Scheduling of the critical sections: a thread inside regs_update or
\* regs_read keeps running until it has released the mutex, and a thread
\* pended on k_mutex_lock gets the mutex after finitely many releases (the
\* kernel hands a released mutex to a waiter). Nothing is assumed about the
\* backend, the clock or the callers of regs_read.
FairLocks ==
  /\ SF_vars(S_update_lock)
  /\ WF_vars(S_update_copy) /\ WF_vars(S_update_seq) /\ WF_vars(S_update_ts)
  /\ WF_vars(S_update_unlock)
  /\ \A r \in Readers :
       SF_vars(R_lock(r)) /\ WF_vars(R_copy(r)) /\ WF_vars(R_unlock(r))

\* The threads that use the register file and the clock: main, the sampling
\* thread and the readers (the shell's adcset, which never touches the mutex,
\* is left out)
NextThreads ==
  \/ Tick
  \/ M_init_lock \/ M_init_body \/ M_init_unlock \/ M_backend_init
  \/ S_sample \/ S_check
  \/ S_update_lock \/ S_update_copy \/ S_update_seq \/ S_update_ts
  \/ S_update_unlock \/ S_wake
  \/ \E r \in Readers : R_call(r) \/ R_lock(r) \/ R_copy(r) \/ R_unlock(r)

SpecFair == Init /\ [][NextThreads]_vars /\ FairLocks

\* Scheduling of the sampling loop: in addition, the clock advances, the
\* backend call returns and the sampling thread, once created with a
\* priority of its own, is run whenever it is ready
FairLoop ==
  /\ WF_vars(Tick)
  /\ WF_vars(S_sample) /\ WF_vars(S_check) /\ WF_vars(S_wake)

SpecLoop == Init /\ [][NextThreads]_vars /\ FairLocks /\ FairLoop

\* ========================================================================
\* Properties
\* ========================================================================
ZeroRegs == [mv |-> ZeroMv, seq |-> U32Zero, last_sample_uptime_ms |-> 0]

\* C2: regs_update(V) followed by regs_read, with no other update in between,
\* yields channels = V, sequence = previous sequence + 1 modulo 2^32 and a
\* timestamp that is not before the previous one.
C2_UpdateThenRead ==
  (hist.last_write = "update" /\ hist.fresh) =>
    /\ snapshot.mv = hist.V
    /\ snapshot.seq = U32Inc(hist.pre.seq)
    /\ snapshot.last_sample_uptime_ms >= hist.pre.last_sample_uptime_ms

\* an update over different earlier values, read back across the wrap of seq
C2_Witness ==
  /\ hist.last_write = "update" /\ hist.fresh
  /\ hist.pre.seq = U32Max /\ snapshot.seq = U32Zero
  /\ hist.n >= 2
  /\ \A c \in Chans : hist.pre.mv[c] # hist.V[c]
  /\ snapshot.mv = hist.V

\* C3: after regs_init, from any prior state, regs_read yields all channels
\* 0, sequence 0 and last_update_time 0.
C3_InitThenRead ==
  (hist.last_write = "init" /\ hist.fresh) => snapshot = ZeroRegs

\* regs_init ran over a state that earlier updates had filled, then a read
C3_Witness ==
  /\ hist.last_write = "init" /\ hist.fresh
  /\ hist.n >= 1
  /\ hist.pre.seq # U32Zero
  /\ hist.pre.last_sample_uptime_ms > 0
  /\ \A c \in Chans : hist.pre.mv[c] # 0
  /\ snapshot = ZeroRegs

\* C4: K updates after regs_init, regs_read yields sequence = K mod 2^32.
C4_SeqCountsUpdates ==
  hist.fresh => snapshot.seq = NatMod32(hist.K)

\* the 2^32-th update has been made and read: the counter is back at 0
C4_Witness ==
  /\ hist.fresh /\ hist.last_write = "update"
  /\ hist.K = <<1, 0, 0>>
  /\ snapshot.seq = U32Zero

\* ---- the application ---------------------------------------------------

\* C1: with the sampling thread updating and several readers reading, every
\* snapshot regs_read returns is the state left by one completed regs_update
\* (or by regs_init): when the copy is made, and until the reader releases
\* the mutex, it equals the last committed state.
C1_NoTornSnapshot ==
  \A r \in Readers : pc[ReaderT(r)] = "rr_unlock" => out[r] = committed

\* a reader holds a snapshot of the second update while another still holds
\* the first one and the sampling thread waits to make the third
C1_Witness ==
  \E r1, r2 \in Readers :
    /\ pc[ReaderT(r1)] = "rr_unlock" /\ pc[SamplerT] = "ru_lock"
    /\ out[r1].seq = <<0, 2>> /\ out[r2].seq = <<0, 1>>
    /\ out[r1].mv # out[r2].mv /\ samples # out[r1].mv
    /\ out[r1].last_sample_uptime_ms > out[r2].last_sample_uptime_ms

\* C5: in a cycle in which adc_backend_sample_all returned non-zero the
\* sampling loop does not enter regs_update, the register file keeps every
\* field, and the failure is logged.
C5_FailedCycleSkipsUpdate ==
  [][/\ (ret # 0 \/ ret' # 0) =>
          /\ regs' = regs
          /\ pc'[SamplerT] \in {"sample", "check", "sleep"}
     /\ (pc[SamplerT] = "check" /\ ret # 0 /\ pc'[SamplerT] # "check") =>
          /\ pc'[SamplerT] = "sleep"
          /\ "ERR ADC sample failed" \in logged']_vars

\* a sample was discarded after an earlier one had been committed
C5_Witness ==
  /\ pc[SamplerT] = "sleep" /\ ret # 0
  /\ "ERR ADC sample failed" \in logged
  /\ regs.seq = <<0, 1>> /\ regs.mv # samples
  /\ regs.last_sample_uptime_ms < now

\* C6: when adc_backend_init fails main logs it and returns without creating
\* the sampling thread; the register file stays in its zero state and every
\* regs_read returns that state.
C6_InitFailureStopsSampling ==
  /\ (cmd.name = "init" /\ cmd.ret # 0) =>
        /\ "ERR ADC backend init failed" \in logged
        /\ pc[MainT] = "returned" /\ main_ret = cmd.ret
  /\ (pc[MainT] = "returned" /\ main_ret # 0) =>
        /\ pc[SamplerT] = "idle"
        /\ regs = ZeroRegs
        /\ \A r \in Readers : out[r] = ZeroRegs

\* long after the failed start a reader has just read the register file
C6_Witness ==
  /\ pc[MainT] = "returned" /\ main_ret = -ENODEV
  /\ now >= SAMPLE_PERIOD_MS
  /\ \E r \in Readers : pc[ReaderT(r)] = "rr_unlock" /\ out[r] = ZeroRegs

\* C10: the timestamp an update stores is not before the one the update
\* before it stored (no regs_init in between).
C10_TimestampMonotonic ==
  regs.last_sample_uptime_ms >= committed.last_sample_uptime_ms

\* the third update has stored a later timestamp than the second
C10_Witness ==
  /\ pc[SamplerT] = "ru_unlock"
  /\ committed.seq = <<0, 2>> /\ regs.seq = <<0, 3>>
  /\ committed.last_sample_uptime_ms > 0
  /\ regs.last_sample_uptime_ms > committed.last_sample_uptime_ms

\* C11: after regs_init and one regs_update, regs_read returns a timestamp
\* that is strictly positive, whatever the clock showed at the update.
C11_FirstTimestampPositive ==
  \A r \in Readers :
    (pc[ReaderT(r)] = "rr_unlock" /\ out[r].seq = <<0, 1>>)
      => out[r].last_sample_uptime_ms > 0


\* C12: once regs_init has returned, the register file changes only in the
\* steps of regs_update made by the sampling thread; an adcset command and
\* the steps of a reader (adcregs) leave channels, sequence and timestamp as
\* they were.
C12_OnlySamplerWrites ==
  [][/\ (RegsReady /\ regs' # regs) =>
          /\ pc[SamplerT] \in {"ru_copy", "ru_seq", "ru_ts"}
          /\ pc'[SamplerT] # pc[SamplerT] \/ idx' # idx
     /\ (cmd'.name = "adcset") => regs' = regs
     /\ \A r \in Readers : pc'[ReaderT(r)] # pc[ReaderT(r)] => regs' = regs]_vars

\* an accepted adcset 1 1000 has just been made while a reader holds a copy
\* of the first update: the register file still has the sampled value
C12_Witness ==
  /\ cmd.name = "adcset" /\ cmd.ret = 0 /\ injected_mv[1] = 1000
  /\ regs.seq = <<0, 1>> /\ regs.mv[1] # 1000 /\ regs.mv[1] # 0
  /\ \E r \in Readers : pc[ReaderT(r)] = "rr_unlock" /\ out[r] = regs

\* C13: the mutex is owned exactly by a thread that is between the lock
\* and the unlock of regs_init, regs_update or regs_read; the sampling thread
\* does not own it while it samples, checks the result or sleeps, and a thread
\* that owns it is never at a k_mutex_lock.
InCriticalSection(t) ==
  \/ t = MainT /\ pc[t] \in {"ri_body", "ri_unlock"}
  \/ t = SamplerT /\ pc[t] \in {"ru_copy", "ru_seq", "ru_ts", "ru_unlock"}
  \/ t \notin {MainT, SamplerT} /\ pc[t] \in {"rr_copy", "rr_unlock"}

C13_MutexOnlyInCopy ==
  /\ \A t \in Threads : regs_mutex = t <=> InCriticalSection(t)
  /\ pc[SamplerT] \in {"sample", "check", "sleep"} => regs_mutex # SamplerT
  /\ regs_mutex # NoOwner =>
       pc[regs_mutex] \notin {"regs_init", "ru_lock", "rr_lock"}

\* a reader is inside regs_read while the sampling thread, which has already
\* made and released one update, is in the middle of adc_backend_sample_all
C13_Witness ==
  /\ pc[SamplerT] = "sample" /\ idx = 1 /\ regs.seq = <<0, 1>>
  /\ \E r \in Readers : regs_mutex = ReaderT(r) /\ pc[ReaderT(r)] = "rr_copy"

\* C14: every regs_read that has been called returns, and so does every
\* regs_update, whatever the backend and the clock do: the only assumption is
\* the fair scheduling of the critical sections.
C14_CallsReturn ==
  /\ \A r \in Readers : (pc[ReaderT(r)] = "rr_lock") ~> (pc[ReaderT(r)] = "idle")
  /\ (pc[SamplerT] = "ru_lock") ~> (pc[SamplerT] = "sleep")

\* both readers are pended on the mutex while the sampling thread owns it
C14_Witness ==
  /\ regs_mutex = SamplerT
  /\ \A r \in Readers : pc[ReaderT(r)] = "rr_lock"

\* C15: two snapshots returned by regs_read that carry the same sequence
\* number are equal in channels and timestamp too, a snapshot with the
\* sequence number of the last committed update is that update, and every
\* update that is about to be committed carries the successor of the sequence
\* number committed before it.
C15_SeqIdentifiesUpdate ==
  /\ \A r1, r2 \in Readers : out[r1].seq = out[r2].seq => out[r1] = out[r2]
  /\ \A r \in Readers : out[r].seq = committed.seq => out[r] = committed
  /\ pc[SamplerT] = "ru_unlock" =>
       /\ regs.seq = U32Inc(committed.seq)
       /\ \A r \in Readers : out[r].seq # regs.seq

\* two readers hold the second update, read at different times, while the
\* third update with other channel values is about to be committed
C15_Witness ==
  /\ pc[SamplerT] = "ru_unlock" /\ regs.seq = <<0, 3>>
  /\ regs.mv # committed.mv
  /\ \E r1, r2 \in Readers :
       /\ r1 # r2 /\ out[r1].seq = <<0, 2>> /\ out[r2] = out[r1]
       /\ out[r1].mv # ZeroMv

\* C16: the sampling loop never ends: from adc_backend_sample_all every
\* cycle, failed or not, reaches k_msleep, from the sleep (while the clock of
\* the model can still reach its end) the thread calls adc_backend_sample_all
\* again, and a successful sample taken after a failed cycle is committed.
ClockCanReach(t) == t <= now + TickMs * ((MaxUptime - now) \div TickMs)

C16_LoopNeverStops ==
  /\ [][pc[SamplerT] # "idle" =>
          pc'[SamplerT] \in {"sample", "check", "ru_lock", "ru_copy", "ru_seq",
                             "ru_ts", "ru_unlock", "sleep"}]_vars
  /\ (pc[SamplerT] = "sample") ~> (pc[SamplerT] = "sleep")
  /\ (pc[SamplerT] = "sleep" /\ ClockCanReach(wake_at)) ~> (pc[SamplerT] = "sample")
  /\ (pc[SamplerT] = "check" /\ ret = 0 /\ hist.failed)
       ~> (pc[SamplerT] = "sleep" /\ ~ hist.failed /\ committed.mv = samples)

\* after a failed cycle and the sleep that followed it, the next sample has
\* been written to the register file and is about to be committed
C16_Witness ==
  /\ hist.failed /\ pc[SamplerT] = "ru_unlock" /\ ret = 0
  /\ regs.mv = samples /\ regs.seq = <<0, 1>>
  /\ regs.last_sample_uptime_ms >= SAMPLE_PERIOD_MS

\* C17: adc_backend_init is called once, by main, and not again; the sampling
\* thread exists, and so adc_backend_sample_all can be called, only after that
\* call has returned 0.
C17_InitOnceBeforeSample ==
  [][/\ (cmd'.name = "init") =>
          /\ adc_dev = "null" /\ pc[MainT] = "backend_init"
          /\ pc'[MainT] = "returned"
     /\ (pc'[SamplerT] # "idle") =>
          /\ pc'[MainT] = "returned" /\ main_ret' = 0
          /\ adc_dev' = "ready"
     /\ (pc[MainT] = "returned") => cmd'.name # "init"]_vars

\* the second call of adc_backend_sample_all has returned
C17_Witness ==
  /\ pc[SamplerT] = "check" /\ regs.seq = <<0, 1>> /\ now >= SAMPLE_PERIOD_MS
  /\ pc[MainT] = "returned" /\ main_ret = 0 /\ adc_dev = "ready"

\* C18: while main is in regs_init the sampling thread does not exist, so no
\* step of regs_update precedes or overlaps regs_init; and once regs_init has
\* returned it is not entered again.
InRegsInit == pc[MainT] \in {"regs_init", "ri_body", "ri_unlock"}

C18_InitBeforeSampler ==
  [][/\ InRegsInit => (pc[SamplerT] = "idle" /\ regs_mutex # SamplerT)
     /\ InRegsInit' => (pc'[SamplerT] = "idle" /\ hist'.failed = FALSE
                        /\ committed' = StaticRegs)
     /\ (~ InRegsInit) => (~ InRegsInit)'
     /\ (pc[SamplerT] # "idle") => (regs' # regs => pc[MainT] = "returned")]_vars

\* the sampling thread is inside regs_update for the first time, main having
\* finished regs_init and returned
C18_Witness ==
  /\ pc[SamplerT] = "ru_copy" /\ idx = 1 /\ regs.seq = U32Zero
  /\ regs.mv[0] # 0 /\ pc[MainT] = "returned" /\ ~ InRegsInit

\* C19: when adc_read fails for a channel inside adc_backend_sample_all
\* (simulated or hardware backend) that channel's output is 0, the loop goes
\* on to the channels after it, whose readings are converted, the call
\* returns 0 and the sampling loop commits the sample: sequence advances by 1.
ConvertedValues(c) ==
  IF target = "sim" THEN {raw_to_mv(adc_emul_raw(emul[c]))}
  ELSE {raw_to_mv(raw) : raw \in HwRaw}

C19_FailedChannelIsZero ==
  [][/\ (pc[SamplerT] = "sample" /\ "ERR ADC read failed" \in logged') =>
          /\ samples'[idx] = 0 /\ ret' = 0
          /\ \A c \in Chans \ {idx} : samples'[c] = samples[c]
          /\ idx' = (idx + 1) % NUM_CH
          /\ pc'[SamplerT] = IF idx + 1 = NUM_CH THEN "check" ELSE "sample"
     /\ (pc[SamplerT] = "sample" /\ hist.zeroed # {} /\ idx > 0
           /\ idx' # idx /\ hist'.zeroed = hist.zeroed) =>
          /\ samples'[idx] \in ConvertedValues(idx)
          /\ \A c \in hist.zeroed : samples'[c] = 0
     /\ (pc[SamplerT] = "check" /\ hist.zeroed # {} /\ pc'[SamplerT] # "check") =>
          /\ ret = 0 /\ pc'[SamplerT] = "ru_lock"
          /\ \A c \in hist.zeroed : samples[c] = 0
     /\ (pc[SamplerT] = "ru_unlock" /\ hist.zeroed # {} /\ pc'[SamplerT] = "sleep") =>
          /\ committed'.mv = samples
          /\ \A c \in hist.zeroed : committed'.mv[c] = 0
          /\ committed'.seq = U32Inc(committed.seq)]_vars

\* the second update is about to be committed with channel 0 zeroed by a
\* failed read and channel 1 converted, over a first update without failure
C19_Witness ==
  /\ pc[SamplerT] = "ru_unlock" /\ hist.zeroed = {0}
  /\ regs.mv[0] = 0 /\ regs.mv[1] > 0 /\ regs.seq = <<0, 2>>
  /\ committed.mv[0] > 0 /\ committed.seq = <<0, 1>>

\* C21: a regs_read delivers a sequence number and a timestamp that are not
\* below those of any regs_read, by any thread, that had returned when it got
\* the mutex, and so of any that had returned before it was called (regs_init
\* is over and the counter has not wrapped): no read goes back to an older
\* committed state.
C21_ReadsNeverGoBack ==
  \A r \in Readers :
    pc[ReaderT(r)] = "rr_unlock" =>
      /\ U32Leq(hist.floor[r].seq, out[r].seq)
      /\ hist.floor[r].ts <= out[r].last_sample_uptime_ms

\* a reader whose previous read had returned the second update (the other
\* readers have returned the first) has read again and copied the third,
\* committed at a later time
C21_Witness ==
  \E r \in Readers :
    /\ pc[ReaderT(r)] = "rr_unlock" /\ hist.floor[r].seq = <<0, 2>>
    /\ out[r].seq = <<0, 3>>
    /\ out[r].last_sample_uptime_ms > hist.floor[r].ts
    /\ \A q \in Readers \ {r} :
         pc[ReaderT(q)] = "idle" /\ out[q].seq = <<0, 1>>

\* ---- the simulated backend ---------------------------------------------

\* C7: inject(ch, mv) followed by sample_all yields out[ch] = clamp(mv, 0, 3300),
\* and the injection logs a warning exactly when mv was outside [0, 3300].
C7_InjectThenSample ==
  /\ (cmd.name = "sample_all" /\ cmd.after_inject /\ cmd.ch[2] \notin cmd.fails)
       => samples[cmd.ch[2]] = inject_clamp(cmd.mv)
  /\ Injected(cmd) =>
       (("WRN clamping injection value" \in logged) <=> inject_out_of_range(cmd.mv))

\* C8: an injection whose channel index is out of range is rejected with
\* -EINVAL and changes neither the emulator, injected_mv, injection_enabled
\* nor the register file.
OutOfRangeCall(c) ==
  \/ c.name = "inject" /\ ~ U32Leq(c.ch, U32Of(NUM_CH - 1))
  \/ c.name = "adcset" /\ Len(c.argv) = 3 /\ ~ U32Leq(c.ch, U32Of(NUM_CH - 1))

C8_BadChannelRejected ==
  [][OutOfRangeCall(cmd') =>
       /\ cmd'.ret = -EINVAL
       /\ UNCHANGED <<emul, injected_mv, injection_enabled, regs>>]_vars

\* channel NUM_CH was refused after another channel had been injected
C8_Witness ==
  /\ cmd.name = "inject" /\ cmd.ch = U32Of(NUM_CH) /\ cmd.ret = -EINVAL
  /\ \E c \in Chans : injection_enabled[c] /\ injected_mv[c] = ADC_REF_MV

\* C20: after adc_backend_init and any injections, the value recorded for
\* every channel and the value handed to the emulator lie in 0 .. 3300; an
\* accepted injection stores 0 for mv < 0, 3300 for mv > 3300 and mv itself
\* otherwise, in injected_mv[ch] and in the emulator, and leaves the other
\* channels as they were.
C20_InjectedInRange ==
  [][/\ \A c \in Chans : /\ injected_mv'[c] \in 0 .. ADC_REF_MV
                        /\ emul'[c] \in 0 .. ADC_REF_MV
     /\ Injected(cmd') =>
          \E v \in {IF cmd'.mv < 0 THEN 0
                    ELSE IF cmd'.mv > ADC_REF_MV THEN ADC_REF_MV ELSE cmd'.mv} :
            /\ injected_mv' = [injected_mv EXCEPT ![cmd'.ch[2]] = v]
            /\ emul' = [emul EXCEPT ![cmd'.ch[2]] = v]
            /\ injection_enabled' = [injection_enabled EXCEPT ![cmd'.ch[2]] = TRUE]]_vars

\* -1 has just been injected into channel 0 and stored as 0, after 5000 had
\* been injected into channel 1 and stored as 3300
C20_Witness ==
  /\ cmd.name = "inject" /\ cmd.ret = 0 /\ cmd.ch = U32Of(0) /\ cmd.mv = -1
  /\ injected_mv[0] = 0 /\ emul[0] = 0
  /\ injected_mv[1] = ADC_REF_MV /\ emul[1] = ADC_REF_MV /\ injection_enabled[1]

\* C9: an adcset whose channel or millivolt argument is not a decimal number
\* returns an error and leaves the injected values as they were.
IsDecimal(s) ==
  LET u == IF s # <<>> /\ Head(s) \in {"-", "+"} THEN Tail(s) ELSE s
  IN u # <<>> /\ \A k \in 1 .. Len(u) : IsDigit(u[k])

Unparseable(c) ==
  c.name = "adcset" /\ Len(c.argv) = 3
    /\ (~ IsDecimal(c.argv[2]) \/ ~ IsDecimal(c.argv[3]))

C9_UnparseableRejected ==
  [][Unparseable(cmd') =>
       /\ cmd'.ret < 0
       /\ UNCHANGED <<emul, injected_mv, injection_enabled>>]_vars

====
